---- MODULE Spec2Model ----
(***************************************************************************)
(* A model of the Facebook Ads API client of src/facebook.py: the request  *)
(* builder make_request, the batch executor make_batch_request, the        *)
(* labeled variant, file_tuple, and the endpoint wrappers.                 *)
(*                                                                         *)
(* Python values are modelled as follows.                                  *)
(*   - None is the string "None"; an optional structured value is a        *)
(*     sequence, <<>> for None and <<v>> for the value v.                  *)
(*   - A dict is a function from its keys to its values; a dict whose      *)
(*     iteration order matters is the sequence of its <<key, value>>       *)
(*     items.                                                              *)
(*   - A JSON text is [valid, json]: whether it parses, and the value it   *)
(*     parses to.  JSON values are records.                                *)
(*   - A URL is [base, path, query] with query the sequence of its         *)
(*     <<name, value>> parameters.                                         *)
(*   - The outcome of a call is [kind, vtype, value, exc]: it returned     *)
(*     value (of shape vtype) or raised exc.                               *)
(***************************************************************************)
EXTENDS Integers, Sequences, FiniteSets, TLC

VARIABLES access_token, app_id, app_secret, appsecret_proof, op, calls, outcome

vars == <<access_token, app_id, app_secret, appsecret_proof, op, calls, outcome>>

client == <<access_token, app_id, app_secret, appsecret_proof>>

-----------------------------------------------------------------------------
(* Bounds and input domains *)

MaxBatch == 2

None == "None"

FACEBOOK_API == "https://graph.facebook.com"

Paths == {"me", "act_1/users"}

Methods == {"GET", "POST", "DELETE", "PUT"}

ArgKeys == {"access_token", "fields", "limit"}

ArgVals == {"CALLER", "x"}

Dicts(K, V) == UNION {[S -> V] : S \in SUBSET K}

EmptyDict == [k \in {} |-> None]

ArgInputs == {<<>>} \cup {<<d>> : d \in Dicts(ArgKeys, ArgVals)}

-----------------------------------------------------------------------------
(* Outcomes of a call *)

Return(t, v) == [kind |-> "return", vtype |-> t, value |-> v, exc |-> [class |-> None]]

ReturnNone == Return("none", <<>>)

Raise(e) == [kind |-> "raise", vtype |-> "none", value |-> <<>>, exc |-> e]

Exc(c) == [class |-> c]

-----------------------------------------------------------------------------
(* Library primitives: dict, URLObject, json, requests *)

RECURSIVE SeqOfSet(_)
SeqOfSet(S) ==
    IF S = {} THEN <<>>
    ELSE LET x == CHOOSE y \in S : TRUE IN <<x>> \o SeqOfSet(S \ {x})

\* the items of a dict, in its iteration order
DictItems(d) == LET ks == SeqOfSet(DOMAIN d) IN [i \in 1..Len(ks) |-> <<ks[i], d[ks[i]]>>]

\* dict(args or {})
dict(args) == IF args = <<>> THEN EmptyDict ELSE args[1]

\* d.setdefault(k, v) for its effect on d
setdefault(d, k, v) == IF k \in DOMAIN d THEN d ELSE [j \in DOMAIN d \cup {k} |-> IF j = k THEN v ELSE d[j]]

\* d[k] = v
setitem(d, k, v) == [j \in DOMAIN d \cup {k} |-> IF j = k THEN v ELSE d[j]]

URL(s) == [base |-> "", path |-> s, query |-> <<>>]

relative(u, path) == [base |-> u.path, path |-> path, query |-> <<>>]

DelParam(q, name) == SelectSeq(q, LAMBDA p : p[1] # name)

RECURSIVE SetParams(_, _)
SetParams(q, items) ==
    IF items = <<>> THEN q
    ELSE SetParams(Append(DelParam(q, Head(items)[1]), Head(items)), Tail(items))

\* URLObject.set_query_params(dict): each name is removed from the query and
\* re-added with the new value
set_query_params(u, d) == [u EXCEPT !.query = SetParams(u.query, DictItems(d))]

\* the parameters a query string decodes to
QueryPairs(u) == {u.query[i] : i \in 1..Len(u.query)}

DictPairs(d) == {<<k, d[k]>> : k \in DOMAIN d}

JsonDumps(v) == [valid |-> TRUE, json |-> v]

Garbage == [valid |-> FALSE, json |-> [html |-> "<html>"]]

ErrObj == [message |-> "bad token", code |-> 100, type |-> "OAuthException"]

\* requests' Response.raise_for_status raises HTTPError for 4xx and 5xx only
raise_for_status(r) ==
    IF r.status >= 400 /\ r.status < 600 THEN Raise([class |-> "HTTPError", status |-> r.status])
    ELSE ReturnNone

-----------------------------------------------------------------------------
(* The server: what the transport hands back for one HTTP call *)

Statuses == {200, 204, 400, 500}

\* the requests call itself raised (no response): the exception propagates
ConnErr == [err |-> TRUE, status |-> 0, body |-> Garbage]

Reply(s, b) == [err |-> FALSE, status |-> s, body |-> b]

LiveBodies == {JsonDumps([data |-> "ok"]), JsonDumps([error |-> ErrObj]), JsonDumps(ErrObj), Garbage}

LiveReplies == {ConnErr} \cup {Reply(s, b) : s \in Statuses, b \in LiveBodies}

-----------------------------------------------------------------------------
(* AdsAPIError and file_tuple *)

\* AdsAPIError.__init__(data): the exception that the raise statement ends in
AdsAPIError(data) ==
    IF "message" \notin DOMAIN data THEN Raise([class |-> "KeyError", key |-> "message"])
    ELSE IF "code" \notin DOMAIN data THEN Raise([class |-> "KeyError", key |-> "code"])
    ELSE IF "type" \notin DOMAIN data THEN Raise([class |-> "KeyError", key |-> "type"])
    ELSE Raise([class |-> "AdsAPIError", error |-> data, message |-> data.message,
                code |-> data.code, type |-> data.type])

\* os.path.splitext(fn)[1] on the file names of the model
SplitExt(fn) ==
    CASE fn = "pic.png" -> ".png"
      [] fn = "PIC.JPG" -> ".JPG"
      [] fn = "notes.xyz" -> ".xyz"
      [] OTHER -> ""

Lower(s) == IF s = ".JPG" THEN ".jpg" ELSE s

\* mimetypes.types_map.get(ext): the keys carry the leading dot
types_map_get(ext) ==
    CASE ext = ".png" -> "image/png"
      [] ext = ".jpg" -> "image/jpeg"
      [] ext = ".jpeg" -> "image/jpeg"
      [] ext = ".gif" -> "image/gif"
      [] OTHER -> None

\* Python truth of a string-or-None
Truthy(v) == v # None /\ v # ""

\* requests.utils.guess_filename(obj)
guess_filename(fp) == IF fp.kind # "str" /\ Truthy(fp.name) /\ fp.name # "<stdin>" THEN fp.name ELSE None

\* imghdr.what on the content's first bytes: "png", "jpeg", "gif" (no dot) or None
imghdr_what(fp) == fp.sig

\* file_tuple(f, default_name, image) -> <<fn, fp, ft, fh>>
file_tuple(f, default_name, image) ==
    LET t   == f.istuple
        n   == Len(f.items)
        fn0 == IF t /\ n >= 1 THEN f.items[1] ELSE None
        fp  == IF t THEN (IF n >= 2 THEN <<f.items[2]>> ELSE <<>>) ELSE <<f.items[1]>>
        ft0 == IF t /\ n >= 3 THEN f.items[3] ELSE None
        fh  == IF t /\ n >= 4 THEN f.items[4] ELSE None
        gn  == IF fp = <<>> THEN None ELSE guess_filename(fp[1])
        fn  == IF ~Truthy(fn0) THEN (IF Truthy(gn) THEN gn ELSE default_name) ELSE fn0
        ft1 == IF ~Truthy(ft0) /\ Truthy(fn) THEN types_map_get(Lower(SplitExt(fn))) ELSE ft0
        ext == IF fp = <<>> THEN None
               ELSE IF fp[1].kind = "str" THEN imghdr_what(fp[1])
               ELSE IF fp[1].kind = "file" THEN imghdr_what(fp[1])
               ELSE None
        ft  == IF ~Truthy(ft1) /\ image THEN (IF Truthy(ext) THEN types_map_get(ext) ELSE ft1) ELSE ft1
    IN <<fn, fp, ft, fh>>

-----------------------------------------------------------------------------
(* Files arguments *)

NoFiles == [kind |-> "none", items |-> EmptyDict]

Content(k, n, g) == [kind |-> k, name |-> n, sig |-> g]

Bare(c) == [istuple |-> FALSE, items |-> <<c>>]

Tuple(s) == [istuple |-> TRUE, items |-> s]

PngBytes == Content("str", None, "png")

FileDict(d) == [kind |-> "dict", items |-> d]

\* a files value that is truthy but has no items() method (a list, True)
OtherFiles == [kind |-> "other", items |-> EmptyDict]

FileInputs ==
    { NoFiles, OtherFiles, FileDict(EmptyDict),
      FileDict([k \in {"thumbnail"} |-> Bare(PngBytes)]),
      FileDict([k \in {"source"} |-> Tuple(<<"pic.png", Content("file", "clip.mp4", None)>>)]) }

-----------------------------------------------------------------------------
(* AdsAPI.make_request and AdsAPI.make_batch_request *)

Exchange(verb, url, data, files, reply) ==
    [verb |-> verb, url |-> url, data |-> data, files |-> files, reply |-> reply]

\* lines 118-126: what make_request does with the response r
live_response(r) ==
    IF r.status = 200
    THEN (IF r.body.valid THEN Return("json", r.body.json) ELSE Raise(Exc("ValueError")))
    ELSE IF ~r.body.valid THEN raise_for_status(r)
    ELSE AdsAPIError(r.body.json)

\* lines 107-108: every entry of a files dict goes through file_tuple
resolve_files(files) ==
    IF files.kind = "dict" /\ DOMAIN files.items # {}
    THEN [files EXCEPT !.items = [k \in DOMAIN files.items |-> Tuple(file_tuple(files.items[k], k, TRUE))]]
    ELSE files

\* live_args with the token assigned instead of defaulted
live_args_overwrite(args) == setitem(dict(args), "access_token", access_token)

\* lines 103-105: the arguments a live request transmits
live_args(args) == setdefault(dict(args), "access_token", access_token)

\* dispatch with a final else: any other method is sent like a GET
dispatch_else_get(method, url, args, files, reply) ==
    IF method = "POST" THEN <<Exchange("POST", url, <<args>>, files, reply)>>
    ELSE IF method = "DELETE" THEN <<Exchange("DELETE", set_query_params(url, args), <<>>, NoFiles, reply)>>
    ELSE <<Exchange("GET", set_query_params(url, args), <<>>, NoFiles, reply)>>

\* dispatch with POST built like GET: the arguments go into the query string
dispatch_post_query(method, url, args, files, reply) ==
    IF method = "GET" THEN <<Exchange("GET", set_query_params(url, args), <<>>, NoFiles, reply)>>
    ELSE IF method = "POST" THEN <<Exchange("POST", set_query_params(url, args), <<>>, files, reply)>>
    ELSE IF method = "DELETE" THEN <<Exchange("DELETE", set_query_params(url, args), <<>>, NoFiles, reply)>>
    ELSE <<>>

\* lines 111-116: the HTTP call dispatched for the method, <<>> for none
dispatch(method, url, args, files, reply) ==
    IF method = "GET" THEN <<Exchange("GET", set_query_params(url, args), <<>>, NoFiles, reply)>>
    ELSE IF method = "POST" THEN <<Exchange("POST", url, <<args>>, files, reply)>>
    ELSE IF method = "DELETE" THEN <<Exchange("DELETE", set_query_params(url, args), <<>>, NoFiles, reply)>>
    ELSE <<>>

\* make_request with the token defaulted before the batch test
make_request_token_first(path, method, args, files, batch, reply) ==
    IF batch
    THEN [calls |-> <<>>,
          out   |-> Return("descriptor", [method |-> method,
                                          relative_url |-> set_query_params(URL(path), live_args(args))])]
    ELSE LET url  == relative(URL(FACEBOOK_API), path)
             sent == dispatch(method, url, live_args(args), resolve_files(files), reply)
         IN [calls |-> sent,
             out   |-> IF sent = <<>> THEN Raise(Exc("UnboundLocalError"))
                       ELSE IF reply.err THEN Raise(Exc("ConnectionError"))
                       ELSE live_response(reply)]

\* make_request(path, method, args, files, batch) when the transport answers
\* with reply: the HTTP exchanges made and the outcome of the call
make_request(path, method, args, files, batch, reply) ==
    IF batch
    THEN [calls |-> <<>>,
          out   |-> Return("descriptor", [method |-> method,
                                          relative_url |-> set_query_params(URL(path), dict(args))])]
    ELSE LET url  == relative(URL(FACEBOOK_API), path)
             sent == dispatch(method, url, live_args(args), resolve_files(files), reply)
         IN [calls |-> sent,
             out   |-> IF sent = <<>> THEN Raise(Exc("UnboundLocalError"))
                       ELSE IF reply.err THEN Raise(Exc("ConnectionError"))
                       ELSE live_response(reply)]

error_500 == [error |-> [code |-> 1, message |-> "An unknown error occurred", type |-> "UnknownError"]]

\* decode_item with the body decoded before the code is looked at
decode_item_eager(d) ==
    IF ~d.body.valid THEN Raise(Exc("ValueError"))
    ELSE IF d.code # 500 THEN Return("json", d.body.json)
    ELSE Return("json", error_500)

\* line 141, one element of the comprehension: json.loads(d['body']) unless code is 500
decode_item(d) ==
    IF d.code # 500
    THEN (IF d.body.valid THEN Return("json", d.body.json) ELSE Raise(Exc("ValueError")))
    ELSE Return("json", error_500)

\* decode_items with an item that fails to decode replaced by the sentinel
decode_items_tolerant(data) ==
    LET res == [i \in 1..Len(data) |-> decode_item(data[i])]
    IN Return("list", [i \in 1..Len(data) |->
                          IF res[i].kind = "raise" THEN error_500 ELSE res[i].value])

\* decode_items with the code-500 items filtered out instead of replaced
decode_items_skip500(data) ==
    LET kept == SelectSeq(data, LAMBDA d : d.code # 500)
        res  == [i \in 1..Len(kept) |-> decode_item(kept[i])]
        bad  == {i \in 1..Len(kept) : res[i].kind = "raise"}
    IN IF bad # {} THEN res[CHOOSE i \in bad : \A j \in bad : i <= j]
       ELSE Return("list", [i \in 1..Len(kept) |-> res[i].value])

\* lines 141-142: the list comprehension; the first item that fails to decode
\* raises for the whole list
decode_items(data) ==
    LET res == [i \in 1..Len(data) |-> decode_item(data[i])]
        bad == {i \in 1..Len(data) : res[i].kind = "raise"}
    IN IF bad # {} THEN res[CHOOSE i \in bad : \A j \in bad : i <= j]
       ELSE Return("list", [i \in 1..Len(data) |-> res[i].value])

\* lines 138-150: what make_batch_request does with the response r
batch_response(r) ==
    IF r.status = 200
    THEN (IF r.body.valid THEN decode_items(r.body.json.items) ELSE Raise(Exc("ValueError")))
    ELSE IF ~r.body.valid THEN raise_for_status(r)
    ELSE AdsAPIError(r.body.json)

\* make_batch_request(batch) when the transport answers with reply
make_batch_request(batch, reply) ==
    LET args == [access_token |-> access_token, batch |-> JsonDumps(batch)]
        sent == <<Exchange("POST", URL(FACEBOOK_API), <<args>>, NoFiles, reply)>>
    IN [calls |-> sent,
        out   |-> IF reply.err THEN Raise(Exc("ConnectionError")) ELSE batch_response(reply)]

\* batch.keys() and batch.values() of a mapping given by its items
keys(b) == [i \in 1..Len(b) |-> b[i][1]]

\* values in the reverse of the order of keys
values_reversed(b) == [i \in 1..Len(b) |-> b[Len(b) + 1 - i][2]]

values(b) == [i \in 1..Len(b) |-> b[i][2]]

Min(a, b) == IF a <= b THEN a ELSE b

\* batch.__class__(zip(labels, data))
zip_dict(labels, data) ==
    LET n == Min(Len(labels), Len(data))
    IN [l \in {labels[i] : i \in 1..n} |->
           data[CHOOSE i \in 1..n : labels[i] = l /\ \A j \in 1..n : labels[j] = l => j <= i]]

\* make_labeled_batch_request(batch) when the transport answers with reply
make_labeled_batch_request(batch, reply) ==
    LET labels  == keys(batch)
        queries == values(batch)
        r       == make_batch_request(queries, reply)
    IN [calls |-> r.calls,
        out   |-> IF r.out.kind = "return" /\ r.out.vtype = "list"
                  THEN Return("dict", zip_dict(labels, r.out.value))
                  ELSE IF r.out.kind = "return" THEN Raise(Exc("TypeError"))  \* zip(labels, None)
                  ELSE r.out]

-----------------------------------------------------------------------------
(* The endpoint wrappers that only assemble path and args and delegate to   *)
(* make_request.  A wrapper is given by its method, its path, and the keys  *)
(* of its args: req always present with the caller's value, fixed always    *)
(* present with a value the wrapper sets, opt present when the caller's     *)
(* value passes the wrapper's test.  passes tells whether the wrapper hands *)
(* an args dict to make_request at all.                                     *)

DATA_LIMIT == 100

Ids == {"1"}

Row(n, m, p, ps, req, fx, opt) ==
    [name |-> n, method |-> m, path |-> p, passes |-> ps, req |-> req, fixed |-> fx, opt |-> opt]

get_adusers(id) ==
    Row("get_adusers", "GET", "act_" \o id \o "/users", FALSE, {}, EmptyDict, {})

get_adaccount(id) ==
    Row("get_adaccount", "GET", "act_" \o id, TRUE, {}, EmptyDict, {"fields"})

get_adaccounts(id) ==
    Row("get_adaccounts", "GET", id \o "/adaccounts", TRUE, {"fields"}, EmptyDict, {})

get_adcampaign_group(id) ==
    Row("get_adcampaign_group", "GET", id, TRUE, {"fields"}, EmptyDict, {})

get_adcampaign_groups(id) ==
    Row("get_adcampaign_groups", "GET", "act_" \o id \o "/adcampaign_groups", TRUE, {"fields"}, [limit |-> ToString(DATA_LIMIT)], {})

delete_adcampaign_group(id) ==
    Row("delete_adcampaign_group", "DELETE", id, FALSE, {}, EmptyDict, {})

get_adcampaign(id) ==
    Row("get_adcampaign", "GET", id, TRUE, {"fields"}, EmptyDict, {})

get_adcampaigns_of_campaign_group(id) ==
    Row("get_adcampaigns_of_campaign_group", "GET", id \o "/adcampaigns", TRUE, {"fields"}, EmptyDict, {})

get_adcampaigns_of_account(id) ==
    Row("get_adcampaigns_of_account", "GET", "act_" \o id \o "/adcampaigns", TRUE, {"fields"}, EmptyDict, {})

get_adcampaigns(id) ==
    Row("get_adcampaigns", "GET", "act_" \o id \o "/adcampaigns", TRUE, {"fields"}, EmptyDict, {})

get_adgroup(id) ==
    Row("get_adgroup", "GET", id, TRUE, {}, EmptyDict, {"fields"})

get_adgroups_by_adaccount(id) ==
    Row("get_adgroups_by_adaccount", "GET", "act_" \o id \o "/adgroups", TRUE, {}, EmptyDict, {"fields", "adgroup_status"})

get_adgroups_by_adcampaign(id) ==
    Row("get_adgroups_by_adcampaign", "GET", id \o "/adgroups", TRUE, {}, EmptyDict, {"fields", "adgroup_status"})

get_adcreative(id) ==
    Row("get_adcreative", "GET", id, TRUE, {"fields"}, EmptyDict, {})

get_adcreatives(id) ==
    Row("get_adcreatives", "GET", "act_" \o id \o "/adcreatives", TRUE, {"fields"}, EmptyDict, {})

get_adimages(id) ==
    Row("get_adimages", "GET", "act_" \o id \o "/adimages", TRUE, {}, EmptyDict, {"hashes"})

get_stats_by_adaccount(id) ==
    Row("get_stats_by_adaccount", "GET", "act_" \o id \o "/adcampaignstats", FALSE, {}, EmptyDict, {})

get_stats_by_adcampaign_group(id) ==
    Row("get_stats_by_adcampaign_group", "GET", id \o "/stats", TRUE, {}, EmptyDict, {"fields", "filters"})

get_stats_by_adcampaign(id) ==
    Row("get_stats_by_adcampaign", "GET", "act_" \o id \o "/adcampaignstats", TRUE, {}, EmptyDict, {"campaign_ids"})

get_stats_by_adgroup(id) ==
    Row("get_stats_by_adgroup", "GET", "act_" \o id \o "/adgroupstats", TRUE, {}, EmptyDict, {"adgroup_ids"})

get_adreport_stats(id) ==
    Row("get_adreport_stats", "GET", "act_" \o id \o "/reportstats", TRUE, {"date_preset", "time_increment", "data_columns"}, EmptyDict, {"filters", "actions_group_by"})

get_async_job_status(id) ==
    Row("get_async_job_status", "GET", id, FALSE, {}, EmptyDict, {})

get_async_job_result(id) ==
    Row("get_async_job_result", "GET", "act_" \o id \o "/reportstats", TRUE, {"report_run_id"}, EmptyDict, {})

get_conversion_stats_by_adaccount(id) ==
    Row("get_conversion_stats_by_adaccount", "GET", "act_" \o id \o "/conversions", FALSE, {}, EmptyDict, {})

get_conversion_stats_by_adcampaign(id) ==
    Row("get_conversion_stats_by_adcampaign", "GET", "act_" \o id \o "/adcampaignconversions", TRUE, {}, EmptyDict, {"campaign_ids", "include_deleted"})

get_conversion_stats_by_adgroup(id) ==
    Row("get_conversion_stats_by_adgroup", "GET", "act_" \o id \o "/adgroupconversions", TRUE, {}, EmptyDict, {"adgroup_ids", "include_deleted"})

get_conversion_stats(id) ==
    Row("get_conversion_stats", "GET", id \o "/conversions", FALSE, {}, EmptyDict, {})

get_custom_audiences(id) ==
    Row("get_custom_audiences", "GET", "act_" \o id \o "/customaudiences", FALSE, {}, EmptyDict, {})

get_remarketing_pixel(id) ==
    Row("get_remarketing_pixel", "GET", "act_" \o id \o "/remarketingpixelcode", FALSE, {}, EmptyDict, {})

get_offsite_pixel(id) ==
    Row("get_offsite_pixel", "GET", id, FALSE, {}, EmptyDict, {})

get_offsite_pixels(id) ==
    Row("get_offsite_pixels", "GET", "act_" \o id \o "/offsitepixels", FALSE, {}, EmptyDict, {})

get_keyword_stats(id) ==
    Row("get_keyword_stats", "GET", id \o "/keywordstats", FALSE, {}, EmptyDict, {})

get_ratecard(id) ==
    Row("get_ratecard", "GET", "act_" \o id \o "/ratecard", FALSE, {}, EmptyDict, {})

get_reach_estimate(id) ==
    Row("get_reach_estimate", "GET", "act_" \o id \o "/reachestimate", TRUE, {"currency", "targeting_spec"}, EmptyDict, {"creative_action_spec", "bid_for"})

get_user_pages(id) ==
    Row("get_user_pages", "GET", id \o "/accounts", TRUE, {}, EmptyDict, {"fields"})

get_autocomplete_data(id) ==
    Row("get_autocomplete_data", "GET", id \o "/search", TRUE, {"type"}, EmptyDict, {"want_localized_name", "list", "limit"})

get_page_access_token(id) ==
    Row("get_page_access_token", "GET", id, TRUE, {}, [fields |-> "access_token"], {})

create_adcampaign_group(id) ==
    Row("create_adcampaign_group", "POST", "act_" \o id \o "/adcampaign_groups", TRUE, {"name", "campaign_group_status"}, EmptyDict, {"objective"})

update_adcampaign_group(id) ==
    Row("update_adcampaign_group", "POST", id, TRUE, {}, EmptyDict, {"name", "campaign_group_status", "objective"})

update_adcampaign(id) ==
    Row("update_adcampaign", "POST", id, TRUE, {}, EmptyDict, {"name", "campaign_status", "daily_budget", "lifetime_budget", "end_time"})

delete_adcampaign(id) ==
    Row("delete_adcampaign", "DELETE", id, FALSE, {}, EmptyDict, {})

create_adcreative_type_27(id) ==
    Row("create_adcreative_type_27", "POST", "act_" \o id \o "/adcreatives", TRUE, {"object_story_id"}, EmptyDict, {"url_tags", "name"})

update_adgroup(id) ==
    Row("update_adgroup", "POST", id, TRUE, {}, EmptyDict, {"name", "bid_type", "bid_info", "creative", "targeting", "conversion_specs", "tracking_specs", "view_tags", "objective", "adgroup_status"})

create_custom_audience(id) ==
    Row("create_custom_audience", "POST", "act_" \o id \o "/customaudiences", TRUE, {"name"}, EmptyDict, {"subtype", "description", "rule", "opt_out_link", "retention_days"})

create_custom_audience_from_website(id) ==
    Row("create_custom_audience_from_website", "POST", "act_" \o id \o "/customaudiences", TRUE, {"name", "rule"}, [subtype |-> "WEBSITE"], {"description", "retention_days"})

SimpleWrappers(id) ==
    { get_adusers(id),
      get_adaccount(id),
      get_adaccounts(id),
      get_adcampaign_group(id),
      get_adcampaign_groups(id),
      delete_adcampaign_group(id),
      get_adcampaign(id),
      get_adcampaigns_of_campaign_group(id),
      get_adcampaigns_of_account(id),
      get_adcampaigns(id),
      get_adgroup(id),
      get_adgroups_by_adaccount(id),
      get_adgroups_by_adcampaign(id),
      get_adcreative(id),
      get_adcreatives(id),
      get_adimages(id),
      get_stats_by_adaccount(id),
      get_stats_by_adcampaign_group(id),
      get_stats_by_adcampaign(id),
      get_stats_by_adgroup(id),
      get_adreport_stats(id),
      get_async_job_status(id),
      get_async_job_result(id),
      get_conversion_stats_by_adaccount(id),
      get_conversion_stats_by_adcampaign(id),
      get_conversion_stats_by_adgroup(id),
      get_conversion_stats(id),
      get_custom_audiences(id),
      get_remarketing_pixel(id),
      get_offsite_pixel(id),
      get_offsite_pixels(id),
      get_keyword_stats(id),
      get_ratecard(id),
      get_reach_estimate(id),
      get_user_pages(id),
      get_autocomplete_data(id),
      get_page_access_token(id),
      create_adcampaign_group(id),
      update_adcampaign_group(id),
      update_adcampaign(id),
      delete_adcampaign(id),
      create_adcreative_type_27(id),
      update_adgroup(id),
      create_custom_audience(id),
      create_custom_audience_from_website(id) }

\* the args dict the wrapper w assembles when the optional keys in present
\* pass their tests
wrapper_args(w, present) ==
    [k \in w.req \cup DOMAIN w.fixed \cup present |->
        IF k \in DOMAIN w.fixed THEN w.fixed[k] ELSE "v"]

\* return self.make_request(path, METHOD, args, batch=batch)
call_wrapper(w, present, batch, reply) ==
    make_request(w.path, w.method,
                 IF w.passes THEN <<wrapper_args(w, present)>> ELSE <<>>,
                 NoFiles, batch, reply)

\* create_offsite_pixel(account_id, name, tag, batch)
create_offsite_pixel(id) ==
    Row("create_offsite_pixel", "POST", "act_" \o id \o "/offsitepixels", TRUE, {"name", "tag"}, EmptyDict, {})

-----------------------------------------------------------------------------
(* The endpoint wrappers with logic of their own *)

DateVals == {None, "date", "datetime"}

\* get_time_interval(start, end)
get_time_interval(start, end) ==
    IF start = None \/ end = None THEN ReturnNone
    ELSE IF start = "date" \/ end = "date" THEN Raise(Exc("TypeError"))  \* datetime.datetime(a date)
    ELSE Return("str", "time_interval")

NoCall(out) == [calls |-> <<>>, out |-> out]

\* get_adreport_stats2(account_id, data_columns, date_preset, date_start,
\* date_end, ..., async, batch); present holds the keys among time_increment,
\* filters, actions_group_by whose value is truthy
get_adreport_stats2(id, date_preset, date_start, date_end, present, async, batch, reply) ==
    IF date_preset = None /\ date_start = None /\ date_end = None
    THEN NoCall(Raise(Exc("BaseException")))
    ELSE LET path == "act_" \o id \o "/reportstats"
             a1 == [data_columns |-> "v"]
             a2 == IF Truthy(date_preset) THEN setitem(a1, "date_preset", date_preset) ELSE a1
             ti == get_time_interval(date_start, date_end)
             a3 == IF Truthy(date_start) /\ Truthy(date_end) /\ ti.kind = "return"
                   THEN setitem(a2, "time_interval", ti.value) ELSE a2
             a4 == [k \in DOMAIN a3 \cup present |-> IF k \in DOMAIN a3 THEN a3[k] ELSE "v"]
         IN IF Truthy(date_start) /\ Truthy(date_end) /\ ti.kind = "raise" THEN NoCall(ti)
            ELSE IF async
            THEN make_request(path, "POST", <<setitem(a4, "async", "true")>>, NoFiles, batch, reply)
            ELSE make_request(path, "GET", <<a4>>, NoFiles, batch, reply)

\* an optional budget: <<>> for None, <<n>> for the amount n
Budgets == {<<>>, <<0>>, <<100>>}

\* "if x:" on an optional number
TruthyNum(x) == x # <<>> /\ x[1] # 0

\* adcampaign_request without the test of end_time
adcampaign_request_no_end_check(id, base, daily_budget, lifetime_budget, start_time, end_time, batch, reply) ==
    IF daily_budget = <<>> /\ lifetime_budget = <<>> THEN NoCall(Raise(Exc("BaseException")))
    ELSE LET a1 == IF TruthyNum(daily_budget) THEN setitem(base, "daily_budget", ToString(daily_budget[1])) ELSE base
             a2 == IF TruthyNum(lifetime_budget) THEN setitem(a1, "lifetime_budget", ToString(lifetime_budget[1])) ELSE a1
             a3 == IF Truthy(start_time) THEN setitem(a2, "start_time", start_time) ELSE a2
             a4 == IF Truthy(end_time) THEN setitem(a3, "end_time", end_time) ELSE a3
         IN make_request("act_" \o id \o "/adcampaigns", "POST", <<a4>>, NoFiles, batch, reply)

\* lines 630-650 and 671-690: the checks and the args shared by
\* _create_adcampaign (base holds campaign_group_id) and create_adcampaign
adcampaign_request(id, base, daily_budget, lifetime_budget, start_time, end_time, batch, reply) ==
    IF daily_budget = <<>> /\ lifetime_budget = <<>> THEN NoCall(Raise(Exc("BaseException")))
    ELSE IF lifetime_budget # <<>> /\ end_time = None THEN NoCall(Raise(Exc("BaseException")))
    ELSE LET a1 == IF TruthyNum(daily_budget) THEN setitem(base, "daily_budget", ToString(daily_budget[1])) ELSE base
             a2 == IF TruthyNum(lifetime_budget) THEN setitem(a1, "lifetime_budget", ToString(lifetime_budget[1])) ELSE a1
             a3 == IF Truthy(start_time) THEN setitem(a2, "start_time", start_time) ELSE a2
             a4 == IF Truthy(end_time) THEN setitem(a3, "end_time", end_time) ELSE a3
         IN make_request("act_" \o id \o "/adcampaigns", "POST", <<a4>>, NoFiles, batch, reply)

\* _create_adcampaign(account_id, campaign_group_id, name, campaign_status, ...)
private_create_adcampaign(id, daily_budget, lifetime_budget, start_time, end_time, batch, reply) ==
    adcampaign_request(id, [campaign_group_id |-> "v", name |-> "v", campaign_status |-> "v"],
                       daily_budget, lifetime_budget, start_time, end_time, batch, reply)

\* create_adset(...): the same call, arguments passed on positionally
create_adset(id, daily_budget, lifetime_budget, start_time, end_time, batch, reply) ==
    private_create_adcampaign(id, daily_budget, lifetime_budget, start_time, end_time, batch, reply)

\* create_adcampaign(account_id, name, campaign_status, ...)
create_adcampaign(id, daily_budget, lifetime_budget, start_time, end_time, batch, reply) ==
    adcampaign_request(id, [name |-> "v", campaign_status |-> "v"],
                       daily_budget, lifetime_budget, start_time, end_time, batch, reply)

AdgroupOpt == {"conversion_specs", "tracking_specs", "view_tags", "objective", "adgroup_status"}

\* create_adgroup(account_id, name, bid_type, bid_info, ..., max_bid, ...)
create_adgroup(id, bid_type, max_bid, present, batch, reply) ==
    LET a0 == [name |-> "v", bid_type |-> bid_type, bid_info |-> "v", campaign_id |-> "v",
               creative |-> "v", targeting |-> "v"]
        a1 == IF TruthyNum(max_bid)
              THEN [k \in (DOMAIN a0 \ {"bid_info"}) \cup {"max_bid"} |->
                       IF k = "max_bid" THEN ToString(max_bid[1]) ELSE a0[k]]
              ELSE a0
        a2 == [k \in DOMAIN a1 \cup present |-> IF k \in DOMAIN a1 THEN a1[k] ELSE "v"]
    IN IF TruthyNum(max_bid) /\ bid_type # "CPM" THEN NoCall(Raise(Exc("AssertionError")))
       ELSE make_request("act_" \o id \o "/adgroups", "POST", <<a2>>, NoFiles, batch, reply)

\* create_lookalike_audiecne(account_id, name, audience_id, lookalike_spec, batch):
\* batch is handed to make_request as its fourth positional argument, files
create_lookalike_audiecne(id, batch, reply) ==
    make_request("act_" \o id \o "/customaudiences", "POST",
                 <<[name |-> "v", origin_audience_id |-> "v", lookalike_spec |-> "v"]>>,
                 IF batch THEN OtherFiles ELSE NoFiles, FALSE, reply)

PageTokenBody == JsonDumps([access_token |-> "PAGETOKEN"])

LookupReplies == LiveReplies \cup {Reply(200, PageTokenBody)}

\* the lookup with the caller's batch flag handed on to it
page_token_lookup_batched(id, batch, reply) ==
    call_wrapper(get_page_access_token(id), {}, batch, reply)

\* lines 551 and 578: self.get_page_access_token(page_id), which is called
\* without the caller's batch flag and so is always live
page_token_lookup(id, batch, reply) ==
    call_wrapper(get_page_access_token(id), {}, FALSE, reply)

\* page_token falling back on the client's token when the lookup failed
page_token_or_client(out) ==
    IF out.kind = "raise" \/ out.vtype = "none" \/ "access_token" \notin DOMAIN out.value
    THEN Return("str", access_token)
    ELSE Return("str", out.value.access_token)

\* lines 555 and 582: page_access_token['access_token'] on what the lookup
\* ended in
page_token(out) ==
    IF out.kind = "raise" THEN out
    ELSE IF out.vtype = "none" THEN Raise(Exc("TypeError"))
    ELSE IF "access_token" \notin DOMAIN out.value THEN Raise([class |-> "KeyError", key |-> "access_token"])
    ELSE Return("str", out.value.access_token)

LinkPostOpt == {"message", "picture", "published", "name", "caption", "description"}

\* create_link_page_post(page_id, link, ..., thumbnail, ..., batch)
create_link_page_post(id, present, thumbnail, batch, reply1, reply2) ==
    LET lookup == page_token_lookup(id, batch, reply1)
        token  == page_token(lookup.out)
        a0     == [link |-> "v", access_token |-> token.value]
        args   == [k \in DOMAIN a0 \cup present |-> IF k \in DOMAIN a0 THEN a0[k] ELSE "v"]
        files  == FileDict(IF thumbnail THEN [k \in {"thumbnail"} |-> Bare(PngBytes)] ELSE EmptyDict)
        main   == make_request(id \o "/feed", "POST", <<args>>, files, batch, reply2)
    IN IF token.kind = "raise" THEN [calls |-> lookup.calls, out |-> token]
       ELSE [calls |-> lookup.calls \o main.calls, out |-> main.out]

VideoPostOpt == {"title", "description", "scheduled_publish_time"}

\* create_video_page_post(page_id, source, ..., thumb, published, ..., batch)
create_video_page_post(id, present, thumb, batch, reply1, reply2) ==
    LET lookup == page_token_lookup(id, batch, reply1)
        token  == page_token(lookup.out)
        a0     == [published |-> "v", access_token |-> token.value]
        args   == [k \in DOMAIN a0 \cup present |-> IF k \in DOMAIN a0 THEN a0[k] ELSE "v"]
        files  == FileDict([k \in {"source"} \cup (IF thumb THEN {"thumb"} ELSE {}) |-> Bare(PngBytes)])
        main   == make_request(id \o "/videos", "POST", <<args>>, files, batch, reply2)
    IN IF token.kind = "raise" THEN [calls |-> lookup.calls, out |-> token]
       ELSE [calls |-> lookup.calls \o main.calls, out |-> main.out]

\* the descriptor a wrapper returns when called with batch=True
described(w, present) == call_wrapper(w, present, TRUE, ConnErr).out.value

\* get_adcampaign_list(account_id)
get_adcampaign_list(id, reply) ==
    make_batch_request(<< described(get_adaccount(id), {"fields"}),
                          described(get_adcampaigns(id), {}),
                          described(get_stats_by_adcampaign(id), {}) >>, reply)

\* get_adcampaign_detail(account_id, campaign_id, date_preset)
get_adcampaign_detail(id, reply) ==
    make_batch_request(<< described(get_adaccount(id), {"fields"}),
                          described(get_adcampaign(id), {}),
                          described(get_adreport_stats(id), {"filters", "actions_group_by"}),
                          described(get_adreport_stats(id), {"filters"}),
                          described(get_adreport_stats(id), {"filters"}),
                          described(get_adreport_stats(id), {"filters"}),
                          described(get_adreport_stats(id), {"filters"}) >>, reply)

-----------------------------------------------------------------------------
(* Batches and what the server answers to them *)

Descriptor(path, method, args) == make_request(path, method, args, NoFiles, TRUE, ConnErr).out.value

BatchDescriptors ==
    { Descriptor("me", "GET", <<>>),
      Descriptor("me", "POST", <<[fields |-> "x"]>>),
      Descriptor("act_1/users", "GET", <<[limit |-> "x"]>>) }

Batches == UNION {[1..n -> BatchDescriptors] : n \in 0..MaxBatch}

Labels == {"a", "b", "has space"}

LabeledBatches ==
    UNION {{b \in [1..n -> Labels \X BatchDescriptors] :
               \A i, j \in 1..n : b[i][1] = b[j][1] => i = j} : n \in 0..MaxBatch}

Fates == {"ok", "error", "500", "500garbled", "garbled"}

\* the batch wire format: the server answers descriptor d with one {code, body}
\* envelope, whose body is the JSON text of d's result unless the item failed
Item(d, fate) ==
    CASE fate = "ok"         -> [code |-> 200, body |-> JsonDumps([data |-> d])]
      [] fate = "error"      -> [code |-> 400, body |-> JsonDumps([error |-> ErrObj])]
      [] fate = "500"        -> [code |-> 500, body |-> JsonDumps([error |-> ErrObj])]
      [] fate = "500garbled" -> [code |-> 500, body |-> Garbage]
      [] fate = "garbled"    -> [code |-> 200, body |-> Garbage]

\* one envelope per submitted descriptor, in the order of submission
ItemSeqs(batch) ==
    {[i \in 1..Len(batch) |-> Item(batch[i], fs[i])] : fs \in [1..Len(batch) -> Fates]}

\* the same, every item meeting the same fate
UniformItemSeqs(batch) ==
    {[i \in 1..Len(batch) |-> Item(batch[i], f)] : f \in Fates}

OuterFailures ==
    {ConnErr, Reply(200, Garbage)} \cup {Reply(s, b) : s \in Statuses \ {200}, b \in LiveBodies}

BatchReplies(batch) ==
    OuterFailures \cup {Reply(200, JsonDumps([items |-> its])) : its \in ItemSeqs(batch)}

CompositeReplies(batch) ==
    OuterFailures \cup {Reply(200, JsonDumps([items |-> its])) : its \in UniformItemSeqs(batch)}

-----------------------------------------------------------------------------
(* The client and its operations *)

\* hmac.new(access_token, app_secret, hashlib.sha256).hexdigest()
hexdigest(key, msg) == [hmac_sha256_key |-> key, msg |-> msg]

\* no call is in progress
Idle == [name |-> "idle"]

Init ==
    /\ access_token = "T"
    /\ app_id = "APP"
    /\ app_secret = "S"
    /\ appsecret_proof = hexdigest("T", "S")
    /\ op = Idle
    /\ calls = <<>>
    /\ outcome = ReturnNone

\* Do with the client adopting the token its last request transmitted
Do_adopting_token(o, r) ==
    /\ op' = o
    /\ calls' = r.calls
    /\ outcome' = r.out
    /\ access_token' =
          IF r.calls # <<>> /\ r.calls[Len(r.calls)].data # <<>>
          THEN r.calls[Len(r.calls)].data[1].access_token
          ELSE access_token
    /\ UNCHANGED <<app_id, app_secret, appsecret_proof>>

\* operation o makes the HTTP exchanges r.calls and ends as r.out
Do(o, r) ==
    /\ op' = o
    /\ calls' = r.calls
    /\ outcome' = r.out
    /\ UNCHANGED client

MakeRequest ==
    /\ op = Idle
    /\ \E path \in Paths, method \in Methods, args \in ArgInputs, files \in FileInputs,
       batch \in BOOLEAN, reply \in LiveReplies :
        Do([name |-> "make_request", path |-> path, method |-> method, args |-> args,
            files |-> files, batch |-> batch],
           make_request(path, method, args, files, batch, reply))

Tokens == {"USERTOKEN", ""}

\* debug_token(token)
debug_token(token, reply) ==
    LET args == [input_token |-> token, access_token |-> app_id \o "|" \o app_secret]
    IN make_request("debug_token", "GET", <<args>>, NoFiles, FALSE, reply)

DebugToken ==
    /\ op = Idle
    /\ \E token \in Tokens, reply \in LiveReplies :
        Do([name |-> "debug_token", token |-> token], debug_token(token, reply))

MakeBatchRequest ==
    /\ op = Idle
    /\ \E batch \in Batches :
        \E reply \in BatchReplies(batch) :
            Do([name |-> "make_batch_request", batch |-> batch],
               make_batch_request(batch, reply))

MakeLabeledBatchRequest ==
    /\ op = Idle
    /\ \E batch \in LabeledBatches :
        \E reply \in BatchReplies(values(batch)) :
            Do([name |-> "make_labeled_batch_request", batch |-> batch],
               make_labeled_batch_request(batch, reply))

SimpleWrapper ==
    /\ op = Idle
    /\ \E id \in Ids, batch \in BOOLEAN, reply \in LiveReplies :
        \E w \in SimpleWrappers(id) \cup {create_offsite_pixel(id)} :
            \E present \in SUBSET w.opt :
                Do([name |-> w.name, id |-> id, present |-> present, batch |-> batch],
                   call_wrapper(w, present, batch, reply))

GetTimeInterval ==
    /\ op = Idle
    /\ \E start \in DateVals, end \in DateVals :
        Do([name |-> "get_time_interval", start |-> start, end |-> end],
           NoCall(get_time_interval(start, end)))

GetAdreportStats2 ==
    /\ op = Idle
    /\ \E id \in Ids, date_preset \in {None, "last_7_days"}, date_start \in DateVals,
          date_end \in DateVals, present \in SUBSET {"time_increment", "filters", "actions_group_by"},
          async \in BOOLEAN, batch \in BOOLEAN, reply \in LiveReplies :
        Do([name |-> "get_adreport_stats2", id |-> id, date_preset |-> date_preset,
            date_start |-> date_start, date_end |-> date_end, present |-> present,
            async |-> async, batch |-> batch],
           get_adreport_stats2(id, date_preset, date_start, date_end, present, async, batch, reply))

CreateAdset ==
    /\ op = Idle
    /\ \E id \in Ids, daily_budget \in Budgets, lifetime_budget \in Budgets,
          start_time \in {None, "t0"}, end_time \in {None, "t1"},
          batch \in BOOLEAN, reply \in LiveReplies :
        Do([name |-> "create_adset", id |-> id, daily_budget |-> daily_budget,
            lifetime_budget |-> lifetime_budget, start_time |-> start_time,
            end_time |-> end_time, batch |-> batch],
           create_adset(id, daily_budget, lifetime_budget, start_time, end_time, batch, reply))

CreateAdcampaign ==
    /\ op = Idle
    /\ \E id \in Ids, daily_budget \in Budgets, lifetime_budget \in Budgets,
          start_time \in {None, "t0"}, end_time \in {None, "t1"},
          batch \in BOOLEAN, reply \in LiveReplies :
        Do([name |-> "create_adcampaign", id |-> id, daily_budget |-> daily_budget,
            lifetime_budget |-> lifetime_budget, start_time |-> start_time,
            end_time |-> end_time, batch |-> batch],
           create_adcampaign(id, daily_budget, lifetime_budget, start_time, end_time, batch, reply))

CreateAdgroup ==
    /\ op = Idle
    /\ \E id \in Ids, bid_type \in {"CPM", "CPC"}, max_bid \in Budgets,
          present \in SUBSET AdgroupOpt, batch \in BOOLEAN, reply \in LiveReplies :
        Do([name |-> "create_adgroup", id |-> id, bid_type |-> bid_type, max_bid |-> max_bid,
            present |-> present, batch |-> batch],
           create_adgroup(id, bid_type, max_bid, present, batch, reply))

CreateLookalikeAudiecne ==
    /\ op = Idle
    /\ \E id \in Ids, batch \in BOOLEAN, reply \in LiveReplies :
        Do([name |-> "create_lookalike_audiecne", id |-> id, batch |-> batch],
           create_lookalike_audiecne(id, batch, reply))

CreateLinkPagePost ==
    /\ op = Idle
    /\ \E id \in Ids, present \in SUBSET LinkPostOpt, thumbnail \in BOOLEAN, batch \in BOOLEAN,
          reply1 \in LookupReplies, reply2 \in LiveReplies :
        Do([name |-> "create_link_page_post", id |-> id, present |-> present,
            thumbnail |-> thumbnail, batch |-> batch],
           create_link_page_post(id, present, thumbnail, batch, reply1, reply2))

CreateVideoPagePost ==
    /\ op = Idle
    /\ \E id \in Ids, present \in SUBSET VideoPostOpt, thumb \in BOOLEAN, batch \in BOOLEAN,
          reply1 \in LookupReplies, reply2 \in LiveReplies :
        Do([name |-> "create_video_page_post", id |-> id, present |-> present,
            thumb |-> thumb, batch |-> batch],
           create_video_page_post(id, present, thumb, batch, reply1, reply2))

GetAdcampaignList ==
    /\ op = Idle
    /\ \E id \in Ids :
        \E reply \in CompositeReplies(get_adcampaign_list(id, ConnErr).calls[1].data[1].batch.json) :
            Do([name |-> "get_adcampaign_list", id |-> id], get_adcampaign_list(id, reply))

GetAdcampaignDetail ==
    /\ op = Idle
    /\ \E id \in Ids :
        \E reply \in CompositeReplies(get_adcampaign_detail(id, ConnErr).calls[1].data[1].batch.json) :
            Do([name |-> "get_adcampaign_detail", id |-> id], get_adcampaign_detail(id, reply))

Contents ==
    {Content("str", None, g) : g \in {None, "png", "jpeg"}}
    \cup {Content(k, n, g) : k \in {"file", "unseekable"}, n \in {None, "pic.png", "<stdin>"},
                             g \in {None, "png", "jpeg"}}

FileNames == {None, "", "pic.png", "PIC.JPG", "notes.xyz", "upload"}

ContentTypes == {None, "", "text/plain"}

\* the tuples file_tuple is given: one to four of filename, content, content
\* type, headers
TupleValues ==
    {Tuple(<<fn>>) : fn \in FileNames}
    \cup {Tuple(<<fn, c>>) : fn \in FileNames, c \in Contents}
    \cup {Tuple(<<fn, c, ft>>) : fn \in FileNames, c \in Contents, ft \in ContentTypes}
    \cup {Tuple(<<fn, c, ft, fh>>) : fn \in FileNames, c \in Contents, ft \in ContentTypes,
                                      fh \in {None, "H"}}

DefaultNames == {None, "upload", "pic.png"}

\* file_tuple(f, default_name, image) called on its own
FileTupleOn(f) ==
    \E default_name \in DefaultNames, image \in BOOLEAN :
        Do([name |-> "file_tuple", f |-> f, default_name |-> default_name, image |-> image],
           NoCall(Return("tuple", file_tuple(f, default_name, image))))

\* f is a bare content, or a tuple
FileTuple ==
    /\ op = Idle
    /\ \/ \E c \in Contents : FileTupleOn(Bare(c))
       \/ \E f \in TupleValues : FileTupleOn(f)

\* the call is over: its exchanges and its result are the caller's, the client
\* keeps nothing of them
EndCall ==
    /\ op # Idle
    /\ op' = Idle
    /\ calls' = <<>>
    /\ outcome' = ReturnNone
    /\ UNCHANGED client

Next ==
    \/ EndCall
    \/ MakeRequest
    \/ MakeBatchRequest
    \/ MakeLabeledBatchRequest
    \/ DebugToken
    \/ SimpleWrapper
    \/ GetTimeInterval
    \/ GetAdreportStats2
    \/ CreateAdset
    \/ CreateAdcampaign
    \/ CreateAdgroup
    \/ CreateLookalikeAudiecne
    \/ CreateLinkPagePost
    \/ CreateVideoPagePost
    \/ GetAdcampaignList
    \/ GetAdcampaignDetail
    \/ FileTuple

Spec == Init /\ [][Next]_vars

-----------------------------------------------------------------------------
(* Properties *)

\* the name/value pairs an exchange transmits: the form fields of its body,
\* or the parameters of its query string when it has no body
SentPairs(c) == IF c.data # <<>> THEN DictPairs(c.data[1]) ELSE QueryPairs(c.url)

\* the envelopes of the batch response of the (only) exchange of the call
Served == calls[1].reply.body.json.items

BatchReturned(n) ==
    /\ op.name = n
    /\ outcome.kind = "return"
    /\ calls[1].reply.status = 200

\* C1: make_request with batch=True makes no HTTP call and returns a descriptor
\* with the given method, the given path, and exactly the items of args as
\* query parameters (the client's access token is not added)
C1_BatchDescriptor ==
    (op.name = "make_request" /\ op.batch) =>
        /\ calls = <<>>
        /\ outcome.kind = "return"
        /\ outcome.vtype = "descriptor"
        /\ DOMAIN outcome.value = {"method", "relative_url"}
        /\ outcome.value.method = op.method
        /\ outcome.value.relative_url.path = op.path
        /\ QueryPairs(outcome.value.relative_url) =
               (IF op.args = <<>> THEN {} ELSE DictPairs(op.args[1]))
        /\ Len(outcome.value.relative_url.query) =
               (IF op.args = <<>> THEN 0 ELSE Cardinality(DOMAIN op.args[1]))

C1_Witness ==
    /\ op.name = "make_request"
    /\ op.batch
    /\ op.args # <<>>
    /\ DOMAIN op.args[1] = {"fields", "limit"}
    /\ outcome.vtype = "descriptor"
    /\ Len(outcome.value.relative_url.query) = 2

UnknownError == [code |-> 1, type |-> "UnknownError", message |-> "An unknown error occurred"]

\* C3 as stated: in a 200 batch response every code-500 item yields exactly
\* {code: 1, type: "UnknownError", message: "An unknown error occurred"}
C3_Original ==
    (op.name = "make_batch_request" /\ outcome.kind = "return" /\ outcome.vtype = "list") =>
        \A i \in 1..Len(outcome.value) : Served[i].code = 500 => outcome.value[i] = UnknownError

\* C3: in a 200 batch response whose other items decode, every code-500 item
\* yields exactly {error: {code: 1, type: "UnknownError", message: "An unknown
\* error occurred"}} at its position, whatever its body, and a code-500 body
\* that is not JSON does not make the call fail
C3_Sentinel ==
    (/\ op.name = "make_batch_request"
     /\ ~calls[1].reply.err
     /\ calls[1].reply.status = 200
     /\ calls[1].reply.body.valid
     /\ \A i \in 1..Len(Served) : Served[i].code # 500 => Served[i].body.valid) =>
        /\ outcome.kind = "return"
        /\ outcome.vtype = "list"
        /\ Len(outcome.value) = Len(Served)
        /\ \A i \in 1..Len(Served) :
               Served[i].code = 500 => outcome.value[i] = [error |-> UnknownError]

C3_Witness ==
    /\ BatchReturned("make_batch_request")
    /\ Len(op.batch) = 2
    /\ Served[1].code = 500
    /\ ~Served[1].body.valid
    /\ Served[2].code = 500
    /\ Served[2].body.valid
    /\ outcome.value[1] = [error |-> UnknownError]
    /\ outcome.value[2] = [error |-> UnknownError]

\* C4: when make_labeled_batch_request returns, the result's keys are exactly
\* the caller's labels and each label maps to the result of its own descriptor
C4_Labels ==
    (op.name = "make_labeled_batch_request" /\ outcome.kind = "return") =>
        /\ outcome.vtype = "dict"
        /\ DOMAIN outcome.value = {op.batch[i][1] : i \in 1..Len(op.batch)}
        /\ \A i \in 1..Len(op.batch) :
            LET res == outcome.value[op.batch[i][1]]
            IN /\ Served[i].code = 200 => res = [data |-> op.batch[i][2]]
               /\ Served[i].code = 400 => res = [error |-> ErrObj]
               /\ Served[i].code = 500 => res = [error |-> UnknownError]

C4_Witness ==
    /\ op.name = "make_labeled_batch_request"
    /\ outcome.kind = "return"
    /\ Len(op.batch) = 2
    /\ op.batch[1][1] = "has space"
    /\ op.batch[1][2] # op.batch[2][2]
    /\ Served[1].code = 200
    /\ Served[2].code = 200
    /\ outcome.value["has space"] = [data |-> op.batch[1][2]]

\* a live make_request got a response
LiveAnswered ==
    /\ op.name = "make_request"
    /\ ~op.batch
    /\ calls # <<>>
    /\ ~calls[1].reply.err

\* C5 as stated: a live make_request that gets a non-200 response with body
\* {"error": {message, code, type}} raises an AdsAPIError carrying those three
\* fields
C5_Claim ==
    (/\ LiveAnswered
     /\ calls[1].reply.status # 200
     /\ calls[1].reply.body = JsonDumps([error |-> ErrObj])) =>
        /\ outcome.kind = "raise"
        /\ outcome.exc.class = "AdsAPIError"
        /\ outcome.exc.message = ErrObj.message
        /\ outcome.exc.code = ErrObj.code
        /\ outcome.exc.type = ErrObj.type

\* C6 as stated: a live make_request that gets a non-200 response whose body is
\* not JSON raises the transport status error, and never returns
C6_Claim ==
    (/\ LiveAnswered
     /\ calls[1].reply.status # 200
     /\ ~calls[1].reply.body.valid) =>
        /\ outcome.kind = "raise"
        /\ outcome.exc.class = "HTTPError"

\* C7 as stated: make_batch_request on a non-200 outer response raises an
\* AdsAPIError if the body is JSON and the transport status error otherwise
C7_Claim ==
    (/\ op.name = "make_batch_request"
     /\ ~calls[1].reply.err
     /\ calls[1].reply.status # 200) =>
        /\ outcome.kind = "raise"
        /\ calls[1].reply.body.valid => outcome.exc.class = "AdsAPIError"
        /\ ~calls[1].reply.body.valid => outcome.exc.class = "HTTPError"

\* an exchange with the API root is the batch POST, any other a live request
IsLiveExchange(c) == c.url.base = FACEBOOK_API

\* C8: every live request transmits an access_token; for make_request it is the
\* caller's when args has one and the client's otherwise, for debug_token it is
\* app_id|app_secret
C8_Token ==
    /\ \A i \in 1..Len(calls) :
           IsLiveExchange(calls[i]) => \E p \in SentPairs(calls[i]) : p[1] = "access_token"
    /\ (op.name = "make_request" /\ ~op.batch /\ calls # <<>>) =>
           LET given == op.args # <<>> /\ "access_token" \in DOMAIN op.args[1]
           IN \A p \in SentPairs(calls[1]) :
                  p[1] = "access_token" =>
                      p[2] = IF given THEN op.args[1].access_token ELSE access_token
    /\ (op.name = "debug_token" /\ calls # <<>>) =>
           <<"access_token", "APP|S">> \in SentPairs(calls[1])

C8_Witness ==
    /\ op.name = "make_request"
    /\ ~op.batch
    /\ op.method = "POST"
    /\ op.args # <<>>
    /\ "access_token" \in DOMAIN op.args[1]
    /\ op.args[1].access_token = "CALLER"
    /\ Len(calls) = 1
    /\ calls[1].data[1].access_token = "CALLER"

\* the arguments a live request is to transmit: args, and the client's token
\* unless args has one
Transmitted(args) ==
    LET a == IF args = <<>> THEN {} ELSE DictPairs(args[1])
    IN IF \E p \in a : p[1] = "access_token" THEN a ELSE a \cup {<<"access_token", access_token>>}

\* C9 as stated: every live make_request dispatches exactly one HTTP call
C9_Original ==
    (op.name = "make_request" /\ ~op.batch) => Len(calls) = 1

\* C9: a live make_request with method GET, POST or DELETE dispatches exactly
\* one HTTP call: GET and DELETE carry the arguments in the query string and
\* no body, POST carries them as form fields (and the files) to the URL
\* without a query; with any other method no call is dispatched
C9_Dispatch ==
    (op.name = "make_request" /\ ~op.batch) =>
        IF op.method \in {"GET", "POST", "DELETE"}
        THEN /\ Len(calls) = 1
             /\ calls[1].verb = op.method
             /\ calls[1].url.base = FACEBOOK_API
             /\ calls[1].url.path = op.path
             /\ op.method \in {"GET", "DELETE"} =>
                    /\ calls[1].data = <<>>
                    /\ calls[1].files = NoFiles
                    /\ QueryPairs(calls[1].url) = Transmitted(op.args)
                    /\ Len(calls[1].url.query) = Cardinality(Transmitted(op.args))
             /\ op.method = "POST" =>
                    /\ calls[1].url.query = <<>>
                    /\ calls[1].data # <<>>
                    /\ DictPairs(calls[1].data[1]) = Transmitted(op.args)
                    /\ calls[1].files.kind = op.files.kind
                    /\ DOMAIN calls[1].files.items = DOMAIN op.files.items
        ELSE calls = <<>>

C9_Witness ==
    /\ op.name = "make_request"
    /\ ~op.batch
    /\ op.method = "POST"
    /\ op.files.kind = "dict"
    /\ DOMAIN op.files.items = {"thumbnail"}
    /\ Len(calls) = 1
    /\ calls[1].url.query = <<>>
    /\ <<"fields", "x">> \in DictPairs(calls[1].data[1])


PagePosts == {"create_link_page_post", "create_video_page_post"}

Composites == {"get_adcampaign_list", "get_adcampaign_detail"}

\* C10 as stated: every operation makes at most one HTTP call, except the two
\* page-post operations, which make exactly two, and the composite operations
\* make exactly one
C10_Original ==
    /\ op.name \notin PagePosts => Len(calls) <= 1
    /\ op.name \in PagePosts => Len(calls) = 2
    /\ op.name \in Composites => Len(calls) = 1

\* the page-post operation got a page access token from its lookup
TokenLookedUp ==
    /\ ~calls[1].reply.err
    /\ calls[1].reply.status = 200
    /\ calls[1].reply.body.valid
    /\ "access_token" \in DOMAIN calls[1].reply.body.json

\* C10: every operation makes at most one HTTP call, except the two page-post
\* operations, which make at most two, one after the other: first the token
\* lookup (a GET), always, and then, only when the lookup yielded a token and
\* the caller did not ask for batch mode, the POST that carries that token;
\* the composite operations make exactly one call, the batch POST
C10_CallCount ==
    /\ op.name \notin PagePosts => Len(calls) <= 1
    /\ op.name \in PagePosts =>
        /\ Len(calls) \in {1, 2}
        /\ calls[1].verb = "GET"
        /\ calls[1].url.path = op.id
        /\ Len(calls) = 2 <=> (~op.batch /\ TokenLookedUp)
        /\ Len(calls) = 2 =>
            /\ calls[2].verb = "POST"
            /\ calls[2].data[1].access_token = calls[1].reply.body.json.access_token
    /\ op.name \in Composites =>
        /\ Len(calls) = 1
        /\ calls[1].verb = "POST"
        /\ calls[1].url.path = FACEBOOK_API

C10_Witness ==
    /\ op.name = "create_video_page_post"
    /\ ~op.batch
    /\ Len(calls) = 2
    /\ calls[2].data[1].access_token = "PAGETOKEN"
    /\ outcome.kind = "return"


\* the token the lookup of a page-post operation got
LookedUpToken == calls[1].reply.body.json.access_token

\* C11: the page-post operations always make the token lookup as a live GET,
\* also with batch=True, before the main request: the main request (or the
\* descriptor) carries the looked-up token as access_token, and when the
\* lookup yields no token the operation raises, the main request is not made
\* and no descriptor is returned
C11_LookupFirst ==
    op.name \in PagePosts =>
        /\ Len(calls) >= 1
        /\ calls[1].verb = "GET"
        /\ IsLiveExchange(calls[1])
        /\ calls[1].url.path = op.id
        /\ <<"fields", "access_token">> \in QueryPairs(calls[1].url)
        /\ (TokenLookedUp /\ op.batch) =>
            /\ Len(calls) = 1
            /\ outcome.kind = "return"
            /\ outcome.vtype = "descriptor"
            /\ <<"access_token", LookedUpToken>> \in QueryPairs(outcome.value.relative_url)
        /\ (TokenLookedUp /\ ~op.batch) =>
            /\ Len(calls) = 2
            /\ calls[2].verb = "POST"
            /\ calls[2].data[1].access_token = LookedUpToken
        /\ ~TokenLookedUp =>
            /\ Len(calls) = 1
            /\ outcome.kind = "raise"

C11_Witness ==
    /\ op.name = "create_link_page_post"
    /\ op.batch
    /\ Len(calls) = 1
    /\ calls[1].verb = "GET"
    /\ outcome.vtype = "descriptor"
    /\ <<"access_token", "PAGETOKEN">> \in QueryPairs(outcome.value.relative_url)

\* the arguments of the call in op do not pass the wrapper's checks
Rejected ==
    \/ /\ op.name \in {"create_adset", "create_adcampaign"}
       /\ \/ op.daily_budget = <<>> /\ op.lifetime_budget = <<>>
          \/ op.lifetime_budget # <<>> /\ op.end_time = None
    \/ /\ op.name = "get_adreport_stats2"
       /\ op.date_preset = None
       /\ op.date_start = None
       /\ op.date_end = None

\* C12: a wrapper that rejects its arguments raises a generic error (not an
\* AdsAPIError) before any HTTP call, and returns no descriptor
C12_Precondition ==
    Rejected =>
        /\ calls = <<>>
        /\ outcome.kind = "raise"
        /\ outcome.exc.class = "BaseException"

C12_Witness ==
    /\ op.name = "create_adset"
    /\ op.daily_budget = <<100>>
    /\ op.lifetime_budget = <<100>>
    /\ op.end_time = None
    /\ op.batch
    /\ calls = <<>>
    /\ outcome.exc.class = "BaseException"

\* the content type given in the tuple file_tuple was called with
ExplicitType == IF op.f.istuple /\ Len(op.f.items) >= 3 THEN op.f.items[3] ELSE None

\* the MIME type of a file name's extension
MimeOfName(fn) ==
    CASE fn = "pic.png" -> "image/png"
      [] fn = "PIC.JPG" -> "image/jpeg"
      [] OTHER -> None

\* the MIME type of the image kind the content's signature shows, for a
\* content that can be read: a string or a seekable file
SniffedMime(fp) ==
    IF fp = <<>> \/ fp[1].kind \notin {"str", "file"} THEN None
    ELSE CASE fp[1].sig = "png" -> "image/png"
           [] fp[1].sig = "jpeg" -> "image/jpeg"
           [] OTHER -> None

\* C13 as stated: the content type file_tuple returns is the explicit one, else
\* the MIME type of the resolved file name's extension, else (image detection
\* on) the type sniffed from the content's signature, else unset
C13_Claim ==
    op.name = "file_tuple" =>
        LET fn == outcome.value[1]
            fp == outcome.value[2]
            ft == outcome.value[3]
        IN IF Truthy(ExplicitType) THEN ft = ExplicitType
           ELSE IF Truthy(fn) /\ MimeOfName(fn) # None THEN ft = MimeOfName(fn)
           ELSE IF op.image /\ SniffedMime(fp) # None THEN ft = SniffedMime(fp)
           ELSE ~Truthy(ft)

\* C14 as stated: a bare content with a PNG signature, default_name "upload"
\* and image detection on yields file name "upload" and content type
\* image/png; a sniffed image kind always yields its MIME type
C14_Claim ==
    /\ (/\ op.name = "file_tuple"
        /\ ~op.f.istuple
        /\ op.f.items[1] = PngBytes
        /\ op.default_name = "upload"
        /\ op.image) =>
           /\ outcome.value[1] = "upload"
           /\ outcome.value[3] = "image/png"
    /\ (/\ op.name = "file_tuple"
        /\ op.image
        /\ ~Truthy(ExplicitType)
        /\ ~(Truthy(outcome.value[1]) /\ MimeOfName(outcome.value[1]) # None)
        /\ SniffedMime(outcome.value[2]) # None) =>
           outcome.value[3] = SniffedMime(outcome.value[2])

\* C15: whatever operations ran and however they ended, the client's
\* access_token, app_id, app_secret and appsecret_proof are those set at
\* construction
C15_ClientUnchanged ==
    /\ access_token = "T"
    /\ app_id = "APP"
    /\ app_secret = "S"
    /\ appsecret_proof = [hmac_sha256_key |-> "T", msg |-> "S"]

C15_Witness ==
    /\ op.name = "make_request"
    /\ ~op.batch
    /\ op.method = "POST"
    /\ op.args # <<>>
    /\ "access_token" \in DOMAIN op.args[1]
    /\ Len(calls) = 1
    /\ calls[1].data[1].access_token = "CALLER"
    /\ outcome.kind = "raise"
    /\ access_token = "T"

\* C16 as stated: a wrapper called with batch=True makes no HTTP call for its
\* main request and, when it returns, returns a descriptor
C16_Claim ==
    (/\ "batch" \in DOMAIN op
     /\ op.name \notin {"make_request", "make_batch_request", "make_labeled_batch_request"}
     /\ op.batch) =>
        /\ IF op.name \in PagePosts THEN Len(calls) <= 1 ELSE calls = <<>>
        /\ outcome.kind = "return" => outcome.vtype = "descriptor"

\* the keys of the arguments of the request a wrapper dispatched, or of the
\* descriptor it returned
RequestKeys ==
    IF outcome.kind = "return" /\ outcome.vtype = "descriptor"
    THEN {p[1] : p \in QueryPairs(outcome.value.relative_url)}
    ELSE {p[1] : p \in SentPairs(calls[1])}

\* C17 as stated: every request or descriptor of create_adcampaign and
\* create_adset carries daily_budget or lifetime_budget, and end_time whenever
\* it carries lifetime_budget
C17_Claim ==
    (/\ op.name \in {"create_adset", "create_adcampaign"}
     /\ (calls # <<>> \/ outcome.vtype = "descriptor")) =>
        /\ RequestKeys \cap {"daily_budget", "lifetime_budget"} # {}
        /\ "lifetime_budget" \in RequestKeys => "end_time" \in RequestKeys

\* C18: in a 200 batch response an item whose code is not 500 and whose body
\* is not JSON makes make_batch_request raise a decode error: no result is
\* returned for any item
C18_DecodeError ==
    (/\ op.name = "make_batch_request"
     /\ ~calls[1].reply.err
     /\ calls[1].reply.status = 200
     /\ calls[1].reply.body.valid
     /\ \E i \in 1..Len(Served) : Served[i].code # 500 /\ ~Served[i].body.valid) =>
        /\ outcome.kind = "raise"
        /\ outcome.exc.class = "ValueError"
        /\ outcome.value = <<>>

C18_Witness ==
    /\ op.name = "make_batch_request"
    /\ Len(op.batch) = 2
    /\ ~calls[1].reply.err
    /\ calls[1].reply.status = 200
    /\ calls[1].reply.body.valid
    /\ Served[1].code = 500
    /\ Served[2].code = 200
    /\ ~Served[2].body.valid
    /\ outcome.exc.class = "ValueError"

\* C19: a live make_request with a method other than GET, POST and DELETE
\* makes no HTTP call and ends in an error; with batch=True the same method
\* is accepted and the descriptor carries it
C19_OtherMethod ==
    (op.name = "make_request" /\ op.method \notin {"GET", "POST", "DELETE"}) =>
        IF op.batch
        THEN /\ calls = <<>>
             /\ outcome.kind = "return"
             /\ outcome.vtype = "descriptor"
             /\ outcome.value.method = op.method
        ELSE /\ calls = <<>>
             /\ outcome.kind = "raise"
             /\ outcome.exc.class = "UnboundLocalError"

C19_Witness ==
    /\ op.name = "make_request"
    /\ op.method = "PUT"
    /\ ~op.batch
    /\ calls = <<>>
    /\ outcome.exc.class = "UnboundLocalError"

====
